---- MODULE Spec2Model ----
(***************************************************************************)
(* Model of the trading store of src/unnamed/part_000                      *)
(* (src/services/trading/tradingService.ts): the drive loop startTrading,  *)
(* stopTrading, runCycle and the four remote operations.                   *)
(*                                                                         *)
(* One action is one browser macrotask: a user call (start, stop, a config *)
(* edit), the arrival of a remote response, or the expiry of a timer,      *)
(* together with every microtask continuation it triggers, up to the next  *)
(* real suspension (an outbound request or a setTimeout).  A remote        *)
(* operation whose getHeaders() throws (no cr00 cookie) fails inside the   *)
(* same macrotask, so it is part of the same action.                       *)
(*                                                                         *)
(* Amounts are small integers standing for the store's numbers.  The log,   *)
(* which the store only ever pushes to and never reads, is kept as its     *)
(* growth: the kinds of the lines the latest macrotask appended to it, in  *)
(* order (<<>> when that macrotask left the log unchanged).                *)
(***************************************************************************)
EXTENDS Integers, Sequences, FiniteSets, Bags, TLC

\* ------------------------------------------------------------------ bounds
\* Number of startTrading() invocations that can be live at the same time.
MaxLoops == 2

\* ------------------------------------------------------------ input values
\* The instants Date.now() reads (lines 251, 262, 278).
ClockValues == {1, 2}
\* The free USDT balance a response reports.
BalanceValues == {0, 1}
\* toCoinAmount of a buy quote: the quantity of toToken bought.
BuyQuoteValues == {3}
\* toCoinAmount of a sell quote: the proceeds in fromToken.
SellQuoteValues == {1}

\* --------------------------------------------------------------- constants
\* setTimeout(resolve, 30000) after a failed cycle.
BackoffMs == 30000
\* setTimeout(resolve, 60000) after every cycle.
CycleMs == 60000

VARIABLES
    config,     \* config.value : TradeConfig
    stats,      \* stats.value
    logs,       \* the lines the latest macrotask pushed to logs.value
    isTrading,  \* isTrading.value
    cookie,     \* whether document.cookie holds a non-empty cr00
    loops,      \* the bag of live startTrading() invocations
    storage,    \* the localStorage item 'tradingConfig'
    loadError,  \* what the latest loadConfig() raised to its caller
    view        \* the latest read of runningTime and the computed's cache

vars == <<config, stats, logs, isTrading, cookie, loops, storage, loadError, view>>

\* ------------------------------------------------------------------ config
\* The TradeConfig literal of the store, in model units.
MkConfig(lo, hi, target, minBal) ==
    [fromToken |-> "USDT", toToken |-> "B2", contractAddress |-> "0x783c",
     minAmount |-> lo, maxAmount |-> hi, targetVolume |-> target,
     maxLossRate |-> 4, minUSDTRequired |-> minBal]

\* The config the store is constructed with (lines 28-37; maxLossRate in
\* thousandths).
DefaultConfig == MkConfig(10, 20, 8192, 50)

\* The configs the panel's inputs are edited to (v-model on config fields;
\* the inputs validate nothing, so minAmount > maxAmount is among them).
ConfigChoices ==
    { MkConfig(1, 2, 2, 1), MkConfig(2, 1, 2, 0) }

\* ------------------------------------------------------------- persistence
\* JSON.stringify writes a number as its decimal digits, with a minus sign
\* when negative, and JSON.parse reads them back.
RECURSIVE Digits(_)
Digits(n) == IF n < 10 THEN <<n>> ELSE Append(Digits(n \div 10), n % 10)

RECURSIVE DigitsValue(_)
DigitsValue(ds) ==
    IF ds = <<>> THEN 0
    ELSE 10 * DigitsValue(SubSeq(ds, 1, Len(ds) - 1)) + ds[Len(ds)]

\* Mutant: the sign is not written.
NumberText_unsigned(n) ==
    [neg |-> FALSE, digits |-> Digits(IF n < 0 THEN -n ELSE n)]

NumberText(n) ==
    [neg |-> n < 0, digits |-> Digits(IF n < 0 THEN -n ELSE n)]

StringKeys == {"fromToken", "toToken", "contractAddress"}

\* config.value after JSON.parse("null").
NullConfig == [null |-> TRUE]

\* What the item 'tradingConfig' can hold: nothing (getItem returns null),
\* the empty string, the text null, the text of an object (its members: a
\* quoted string or a number per key), or a text JSON.parse rejects.
NoItem == [kind |-> "none"]
EmptyText == [kind |-> "empty"]
NullText == [kind |-> "null"]
GarbageText == [kind |-> "garbage"]

\* JSON.stringify(config.value)
JSONStringify(c) ==
    IF c = NullConfig THEN NullText
    ELSE [kind |-> "object",
          members |-> [k \in DOMAIN c |->
                          IF k \in StringKeys THEN [str |-> c[k]]
                          ELSE NumberText(c[k])]]

\* JSON.parse of a text it accepts.
JSONParse(text) ==
    IF text.kind = "null" THEN NullConfig
    ELSE [k \in DOMAIN text.members |->
            LET t == text.members[k]
            IN  IF "str" \in DOMAIN t THEN t.str
                ELSE (IF t.neg THEN -1 ELSE 1) * DigitsValue(t.digits)]

\* ------------------------------------------------------------------- stats
\* ------------------------------------------------------------ runningTime
\* n.toString().padStart(2, '0'), as decimal digits.
PadStart2(n) == IF n < 10 THEN <<0, n>> ELSE Digits(n)

\* hours:minutes:seconds of a span of ms milliseconds (lines 60-63).
RunningTimeText(ms) ==
    <<PadStart2(ms \div (1000 * 60 * 60)),
      PadStart2((ms % (1000 * 60 * 60)) \div (1000 * 60)),
      PadStart2((ms % (1000 * 60)) \div 1000)>>

\* No read of runningTime yet: the computed has no cached value (seen is
\* the stats.value.startTime its getter last ran with, -1 for none).
NoView == [at |-> 0, shown |-> <<>>, seen |-> -1, running |-> FALSE]

InitStats ==
    [startBalance |-> 0, currentBalance |-> 0, totalVolume |-> 0,
     cyclesCompleted |-> 0, totalProfit |-> 0, tradeHistory |-> <<>>,
     startTime |-> 0, lastUpdated |-> 0]

\* -------------------------------------------------------------- drive loop
\* pc of a startTrading() invocation:
\*   "none"      being invoked
\*   "balance" "buyQuote" "buy" "sellQuote" "sell"
\*               inside runCycle, awaiting the response of that request
\*   "backoff"   awaiting setTimeout(30000)
\*   "delay"     awaiting setTimeout(60000)
\*   "done"      returned (it is then no longer in loops)
NetPcs == {"balance", "buyQuote", "buy", "sellQuote", "sell"}
TimerPcs == {"backoff", "delay"}

\* fromAmount, buyQuote, buySuccess and sellQuote are runCycle's locals (of
\* the quotes, their toCoinAmount, 0 outside a cycle; of buyResult, its
\* success); acquired is the amount of toToken the exchange reported as
\* filled in the buy's response; contract is the contract address
\* in the parameters of the request in flight ("" when that has none);
\* wait is the setTimeout the loop is suspended in.
IdleLoop ==
    [pc |-> "none", fromAmount |-> 0, buyQuote |-> 0, buySuccess |-> FALSE,
     acquired |-> 0, sellQuote |-> 0, contract |-> "", wait |-> 0]

\* runCycle has returned: its locals are gone.
Returned(m) ==
    [m EXCEPT !.lp.fromAmount = 0, !.lp.buyQuote = 0, !.lp.sellQuote = 0,
              !.lp.buySuccess = FALSE, !.lp.acquired = 0,
              !.lp.contract = ""]

\* The working copy of the store one macrotask computes on; lg collects the
\* lines it pushes to logs.
Machine(l) ==
    [run |-> isTrading, st |-> stats, lg |-> <<>>, lp |-> l]

Log(m, tag) == [m EXCEPT !.lg = Append(@, tag)]

\* A macrotask that pushes nothing to logs.value.
NoLog == logs' = <<>>

\* loops with invocation l, if it is one of them, replaced by what it has
\* become.
Resumed(l, lp) ==
    LET rest == IF BagIn(l, loops) THEN loops (-) SetToBag({l}) ELSE loops
    IN  IF lp.pc = "done" THEN rest ELSE rest (+) SetToBag({lp})

Commit(l, m) ==
    /\ isTrading' = m.run
    /\ stats' = m.st
    /\ logs' = m.lg
    /\ loops' = Resumed(l, m.lp)

\* ------------------------------------------------------- remote responses
\* What an outbound request can come back with.  kind "error" is the
\* rejected axios promise (transport error, non-2xx) or a body whose shape
\* makes the operation's own try block throw.
Outcome(kind, val) == [kind |-> kind, val |-> val]

\* getUSDTBalance: a MAIN account with a USDT entry (free = val), a body
\* without one, or an error.
BalanceOutcomes ==
    {Outcome("ok", b) : b \in BalanceValues}
        \cup {Outcome("noAsset", 0), Outcome("error", 0)}

\* The balance getUSDTBalance returns for a response.
BalanceOf(r) == IF r.kind = "ok" THEN r.val ELSE 0

\* getQuote: response.data.data with toCoinAmount = val, response.data.data
\* null or absent, or an error.
QuoteOutcomes(amounts) ==
    {Outcome("ok", q) : q \in amounts}
        \cup {Outcome("noData", 0), Outcome("error", 0)}

\* buyToken / sellToken: response.data with success true, with success
\* false or absent, response.data null, or an error.
OrderOutcomes ==
    {Outcome("success", 0), Outcome("rejected", 0),
     Outcome("nullBody", 0), Outcome("error", 0)}

\* buyToken: as above, a success reporting the amount of toToken filled.
BuyOutcomes(filled) ==
    {Outcome("success", a) : a \in filled}
        \cup {r \in OrderOutcomes : r.kind # "success"}

\* The responses each remote step of a cycle can get.
BuyQuoteOutcomes == QuoteOutcomes(BuyQuoteValues)
BuyResults == BuyOutcomes(BuyQuoteValues)
SellQuoteOutcomes == QuoteOutcomes(SellQuoteValues)

\* The fromCoinAmount of the sell quote's and the sell's request
\* (lines 221, 236).
SellAmount(l) == l.buyQuote

\* ----------------------------------------------------------- startTrading
\* Mutant: startTrading without its guard.
AlreadyRunning_unguarded == FALSE

\* The guard of startTrading.
AlreadyRunning == isTrading

\* Mutant: the while loop tests the flag only, not the target.
LoopCondition_flagOnly(m) == m.run

\* Mutant: the while loop tests the target only, not the flag.
LoopCondition_noFlag(m) == m.st.totalVolume < config.targetVolume

\* Mutant: the while loop runs until the target is exceeded.
LoopCondition_inclusive(m) ==
    m.run /\ m.st.totalVolume <= config.targetVolume

\* The condition of the while loop.
LoopCondition(m) ==
    m.run /\ m.st.totalVolume < config.targetVolume

\* Mutant: stopTrading logs and leaves the flag.
StopTrading_logOnly(m) == Log(m, "stop")

\* stopTrading.
StopTrading(m) == Log([m EXCEPT !.run = FALSE], "stop")

\* Mutant: a failed cycle goes straight to the 60 s timer.
CycleFailed_noBackoff(m) ==
    [Log(Returned(m), "warnRetry") EXCEPT !.lp.pc = "delay",
                                          !.lp.wait = CycleMs]

\* Mutant: a failed cycle ends the run.
CycleFailed_halts(m) ==
    [StopTrading(Log(Returned(m), "warnRetry")) EXCEPT !.lp.pc = "done"]

\* The loop body after runCycle resolved false: the warning, then the 30 s
\* timer (the 60 s timer follows when that one fires).
CycleFailed(m) ==
    [Log(Returned(m), "warnRetry") EXCEPT !.lp.pc = "backoff",
                                          !.lp.wait = BackoffMs]

\* The loop body after runCycle resolved true, or after the 30 s timer:
\* the 60 s timer.
InterCycleDelay(m) ==
    [Returned(m) EXCEPT !.lp.pc = "delay", !.lp.wait = CycleMs]

\* --------------------------------------------------------------- runCycle
\* The request of remote operation op is out; runCycle awaits its response.
Sent(m, op) == [m EXCEPT !.lp.pc = op]

\* The same for a quote or an order, whose parameters hold
\* config.value.contractAddress as it is when the call is made
\* (lines 191, 205, 220, 235).
SentFor(m, op) ==
    [m EXCEPT !.lp.pc = op, !.lp.contract = config.contractAddress]

\* Mutant: getQuote sends its request without looking for the cookie.
CallQuote_noAuth(m, op) == SentFor(m, op)

\* getQuote(...) invoked: with the cookie the request goes out and runCycle
\* is suspended; without it getHeaders() throws, getQuote logs and returns
\* null, and runCycle returns false.
CallQuote(m, op) ==
    IF cookie
    THEN SentFor(m, op)
    ELSE CycleFailed(Log(m, "quoteErr"))

\* The line buyToken / sellToken pushes in its catch, and the line runCycle
\* pushes when the order's success is falsy.
ErrTag(op) == IF op = "buy" THEN "buyErr" ELSE "sellErr"
FailTag(op) == IF op = "buy" THEN "buyFail" ELSE "sellFail"

\* buyToken(...) / sellToken(...) invoked: without the cookie the operation
\* logs and returns {success: false}, and runCycle logs the failed order.
CallOrder(m, op) ==
    IF cookie
    THEN SentFor(m, op)
    ELSE CycleFailed(Log(Log(m, ErrTag(op)), FailTag(op)))

\* Mutant: runCycle without the balance check.
BalanceTooLow_unchecked(bal) == FALSE

\* usdtBalance < config.value.minUSDTRequired
BalanceTooLow(bal) == bal < config.minUSDTRequired

\* Mutant: the draw overshoots maxAmount.
DrawAmounts_over == config.minAmount..(config.maxAmount + 1)

\* Math.random() * (maxAmount - minAmount) + minAmount: between the two
\* bounds, whichever is the larger.
DrawAmounts ==
    IF config.minAmount <= config.maxAmount
    THEN config.minAmount..config.maxAmount
    ELSE config.maxAmount..config.minAmount

\* The amounts line 180 can draw once the balance is bal: none is drawn
\* (0 stands for that) when runCycle returns before.
DrawnAfter(bal) == IF BalanceTooLow(bal) THEN {0} ELSE DrawAmounts

\* runCycle from the resolved balance to the buy quote's request.
AfterBalance(m, bal, amt) ==
    LET m1 == [m EXCEPT !.st.currentBalance = bal]
    IN  IF BalanceTooLow(bal)
        THEN CycleFailed(Log(m1, "lowBalance"))
        ELSE CallQuote(Log([m1 EXCEPT !.lp.fromAmount = amt], "cycleStart"),
                       "buyQuote")

\* runCycle from its first line: getUSDTBalance() invoked.
RunCycle(m, amt) ==
    LET m0 == [m EXCEPT !.lp.wait = 0]
    IN  IF cookie
        THEN Sent(m0, "balance")
        ELSE AfterBalance(Log(m0, "balanceErr"), 0, amt)

\* Mutant: the record is numbered with the count before the increment.
NewTrade_zeroBased(m, proceeds, t) ==
    [time |-> t, buyAmount |-> m.lp.fromAmount, sellAmount |-> proceeds,
     profitLoss |-> proceeds - m.lp.fromAmount,
     cycleNumber |-> m.st.cyclesCompleted]

\* The TradeRecord and the totals of a completed cycle.
NewTrade(m, proceeds, t) ==
    [time |-> t, buyAmount |-> m.lp.fromAmount, sellAmount |-> proceeds,
     profitLoss |-> proceeds - m.lp.fromAmount,
     cycleNumber |-> m.st.cyclesCompleted + 1]

\* Mutant: the volume is counted from the sell side.
RecordTrade_sellVolume(m, proceeds, t) ==
    [m EXCEPT !.st.tradeHistory = Append(@, NewTrade(m, proceeds, t)),
              !.st.totalVolume = @ + proceeds,
              !.st.totalProfit = @ + NewTrade(m, proceeds, t).profitLoss,
              !.st.cyclesCompleted = @ + 1,
              !.st.lastUpdated = t]

\* Mutant: the proceeds are added to totalProfit, not the difference.
RecordTrade_grossProfit(m, proceeds, t) ==
    [m EXCEPT !.st.tradeHistory = Append(@, NewTrade(m, proceeds, t)),
              !.st.totalVolume = @ + m.lp.fromAmount,
              !.st.totalProfit = @ + proceeds,
              !.st.cyclesCompleted = @ + 1,
              !.st.lastUpdated = t]

RecordTrade(m, proceeds, t) ==
    [m EXCEPT !.st.tradeHistory = Append(@, NewTrade(m, proceeds, t)),
              !.st.totalVolume = @ + m.lp.fromAmount,
              !.st.totalProfit = @ + NewTrade(m, proceeds, t).profitLoss,
              !.st.cyclesCompleted = @ + 1,
              !.st.lastUpdated = t]

\* Mutant: the loop is left without stopTrading().
LoopTop_noStop(m, amt) ==
    IF LoopCondition(m)
    THEN RunCycle(m, amt)
    ELSE [m EXCEPT !.lp.pc = "done", !.lp.wait = 0]

\* The top of the while loop: another cycle, or stopTrading() and return.
LoopTop(m, amt) ==
    IF LoopCondition(m)
    THEN RunCycle(m, amt)
    ELSE [StopTrading(m) EXCEPT !.lp.pc = "done", !.lp.wait = 0]

\* runCycle resumed with the balance response.
OnBalance(m, r, amt) ==
    IF r.kind \in {"ok", "noAsset"}
    THEN AfterBalance(m, BalanceOf(r), amt)
    ELSE AfterBalance(Log(m, "balanceErr"), BalanceOf(r), amt)

\* runCycle resumed with the buy quote / the sell quote.
OnQuote(m, r, op) ==
    CASE r.kind = "ok" ->
            IF op = "buyQuote"
            THEN CallOrder([m EXCEPT !.lp.buyQuote = r.val], "buy")
            ELSE CallOrder([m EXCEPT !.lp.sellQuote = r.val], "sell")
      [] r.kind = "noData" -> CycleFailed(m)
      [] OTHER -> CycleFailed(Log(m, "quoteErr"))

\* Mutant: runCycle without its catch; the TypeError of reading success of
\* a null result rejects runCycle and with it startTrading.
OrderFailed_uncaught(m, r, op) ==
    CASE r.kind = "rejected" -> CycleFailed(Log(m, FailTag(op)))
      [] r.kind = "nullBody" -> [Returned(m) EXCEPT !.lp.pc = "done"]
      [] OTHER -> CycleFailed(Log(Log(m, ErrTag(op)), FailTag(op)))

\* runCycle resumed with an order's result that is not a success.
OrderFailed(m, r, op) ==
    CASE r.kind = "rejected" -> CycleFailed(Log(m, FailTag(op)))
      [] r.kind = "nullBody" -> CycleFailed(Log(m, "cycleErr"))
      [] OTHER -> CycleFailed(Log(Log(m, ErrTag(op)), FailTag(op)))

\* Mutant: runCycle goes on to the sell quote whatever the buy result.
OnBuy_ignoresResult(m, r) ==
    CallQuote([m EXCEPT !.lp.buySuccess = (r.kind = "success"),
                        !.lp.acquired = r.val], "sellQuote")

\* runCycle resumed with the buy result.
OnBuy(m, r) ==
    IF r.kind = "success"
    THEN CallQuote([m EXCEPT !.lp.buySuccess = TRUE, !.lp.acquired = r.val],
                   "sellQuote")
    ELSE OrderFailed(m, r, "buy")

\* Mutant: a sell that came back after stop() is not recorded.
OnSell_dropsWhenStopped(m, r, t) ==
    IF r.kind = "success" /\ m.run
    THEN InterCycleDelay(Log(RecordTrade(m, m.lp.sellQuote, t), "tradeOk"))
    ELSE IF r.kind = "success" THEN CycleFailed(m)
    ELSE OrderFailed(m, r, "sell")

\* Mutant: the trade is recorded before the sell result is tested.
OnSell_recordsFirst(m, r, t) ==
    IF r.kind = "success"
    THEN InterCycleDelay(Log(RecordTrade(m, m.lp.sellQuote, t), "tradeOk"))
    ELSE OrderFailed(RecordTrade(m, m.lp.sellQuote, t), r, "sell")

\* runCycle resumed with the sell result.
OnSell(m, r, t) ==
    IF r.kind = "success"
    THEN InterCycleDelay(Log(RecordTrade(m, m.lp.sellQuote, t), "tradeOk"))
    ELSE OrderFailed(m, r, "sell")

\* ---------------------------------------------------------------- actions
\* What Date.now() can return: the clock never runs backwards, so no less
\* than what it returned before (startTime, lastUpdated, the latest read
\* of runningTime).
DateNow ==
    {t \in ClockValues :
        t >= stats.startTime /\ t >= stats.lastUpdated /\ t >= view.at}

\* The live invocations, and those suspended at pc.
Live == BagToSet(loops)
At(pc) == {l \in Live : l.pc = pc}

\* The amounts a cycle begun in this macrotask can draw: with the cookie it
\* is suspended before the draw, without it the balance is 0.
DrawnAtTop == IF cookie THEN {0} ELSE DrawnAfter(0)

\* Mutant: a start begins from fresh statistics.
Started_fresh(m, t) ==
    Log([m EXCEPT !.run = TRUE, !.st = [InitStats EXCEPT !.startTime = t]],
        "start")

\* startTrading past its guard: the flag, startTime and the start line
\* (lines 277-279).
Started(m, t) ==
    Log([m EXCEPT !.run = TRUE, !.st.startTime = t], "start")

\* startTrading(), up to its first suspension.
Start ==
    IF AlreadyRunning
    THEN NoLog /\ UNCHANGED <<config, stats, isTrading, cookie, loops, storage, loadError, view>>
    ELSE /\ BagCardinality(loops) < MaxLoops
         /\ \E t \in DateNow, amt \in DrawnAtTop :
              Commit(IdleLoop, LoopTop(Started(Machine(IdleLoop), t), amt))
         /\ UNCHANGED <<config, cookie, storage, loadError, view>>

\* stopTrading(), called from the panel.
Stop ==
    /\ LET m == StopTrading(Machine(IdleLoop))
       IN  isTrading' = m.run /\ logs' = m.lg
    /\ UNCHANGED <<config, stats, cookie, loops, storage, loadError, view>>

BalanceResponseWith(outcomes) ==
    /\ \E l \in At("balance"), r \in outcomes :
         \E amt \in DrawnAfter(BalanceOf(r)) :
            Commit(l, OnBalance(Machine(l), r, amt))
    /\ UNCHANGED <<config, cookie, storage, loadError, view>>

QuoteResponseWith(op, outcomes) ==
    /\ \E l \in At(op), r \in outcomes : Commit(l, OnQuote(Machine(l), r, op))
    /\ UNCHANGED <<config, cookie, storage, loadError, view>>

BuyResponseWith(outcomes) ==
    /\ \E l \in At("buy"), r \in outcomes : Commit(l, OnBuy(Machine(l), r))
    /\ UNCHANGED <<config, cookie, storage, loadError, view>>

SellResponseWith(outcomes) ==
    /\ \E l \in At("sell"), r \in outcomes :
         \E t \in (IF r.kind = "success" THEN DateNow ELSE {0}) :
            Commit(l, OnSell(Machine(l), r, t))
    /\ UNCHANGED <<config, cookie, storage, loadError, view>>

BalanceResponse == BalanceResponseWith(BalanceOutcomes)
BuyQuoteResponse == QuoteResponseWith("buyQuote", BuyQuoteOutcomes)
BuyResponse == BuyResponseWith(BuyResults)
SellQuoteResponse == QuoteResponseWith("sellQuote", SellQuoteOutcomes)
SellResponse == SellResponseWith(OrderOutcomes)

\* The 30 s timer fires: the loop body goes on to the 60 s timer.
BackoffExpires ==
    /\ \E l \in At("backoff") : Commit(l, InterCycleDelay(Machine(l)))
    /\ UNCHANGED <<config, cookie, storage, loadError, view>>

\* The 60 s timer fires: back to the top of the while loop.
DelayExpires ==
    /\ \E l \in At("delay"), amt \in DrawnAtTop :
         Commit(l, LoopTop(Machine(l), amt))
    /\ UNCHANGED <<config, cookie, storage, loadError, view>>

\* saveConfig()
SaveConfig ==
    /\ storage' = JSONStringify(config)
    /\ NoLog
    /\ UNCHANGED <<config, stats, isTrading, cookie, loops, loadError, view>>

\* loadConfig(): an item that is null or the empty string leaves config as
\* it is; any other is parsed and assigned, and the SyntaxError of a text
\* JSON.parse rejects goes to the caller.
LoadConfig ==
    /\ IF storage.kind \in {"none", "empty"}
       THEN config' = config /\ loadError' = ""
       ELSE IF storage.kind = "garbage"
       THEN config' = config /\ loadError' = "SyntaxError"
       ELSE config' = JSONParse(storage) /\ loadError' = ""
    /\ NoLog
    /\ UNCHANGED <<stats, isTrading, cookie, loops, storage, view>>

\* The panel's inputs write config.value; the panel's deep watcher then
\* calls saveConfig().
EditConfigWith(choices) ==
    /\ config' \in choices \ {config}
    /\ storage' = JSONStringify(config')
    /\ NoLog
    /\ UNCHANGED <<stats, isTrading, cookie, loops, loadError, view>>

EditConfig == EditConfigWith(ConfigChoices)

\* The page's session cookie cr00 appears or goes away.
CookieChanges ==
    /\ cookie' = ~cookie
    /\ NoLog
    /\ UNCHANGED <<config, stats, isTrading, loops, storage, loadError, view>>

\* The value of the computed runningTime read at time t: its getter
\* (lines 58-63) runs when no value is cached or its only reactive
\* dependency, stats.value.startTime, was written a new value since the
\* getter last ran; Date.now() is no dependency.
RunningTimeAt(t) ==
    IF view.seen = stats.startTime THEN view.shown
    ELSE IF stats.startTime = 0 THEN RunningTimeText(0)
    ELSE RunningTimeText(t - stats.startTime)

\* runningTime is read at time t, with the run flag as it is then.
ReadRunningTimeAt(times) ==
    /\ \E t \in {u \in times : u >= view.at /\ u >= stats.startTime
                                /\ u >= stats.lastUpdated} :
         view' = [at |-> t, shown |-> RunningTimeAt(t),
                  seen |-> stats.startTime, running |-> isTrading]
    /\ NoLog
    /\ UNCHANGED <<config, stats, isTrading, cookie, loops, storage, loadError>>

\* The store as the mounted panel finds it, once loadConfig() has read the
\* saved record.
Init ==
    /\ config \in ConfigChoices
    /\ stats = InitStats
    /\ logs = <<>>
    /\ isTrading = FALSE
    /\ cookie \in BOOLEAN
    /\ loops = EmptyBag
    /\ storage = JSONStringify(config)
    /\ loadError = ""
    /\ view = NoView

LoopStep ==
    \/ BalanceResponse
    \/ BuyQuoteResponse
    \/ BuyResponse
    \/ SellQuoteResponse
    \/ SellResponse
    \/ BackoffExpires
    \/ DelayExpires

Next ==
    \/ Start
    \/ Stop
    \/ LoopStep
    \/ EditConfig
    \/ CookieChanges

Spec == Init /\ [][Next]_vars

\* ------------------------------------------------- the fixed-amount run
\* The run of the target test: minAmount = maxAmount = a, target T, the
\* cookie present, no stop(), no config edit, every request answered with
\* a success.
TargetConfigs ==
    { MkConfig(15, 15, 100, 0), MkConfig(3, 3, 9, 0), MkConfig(2, 2, 5, 0) }

InitTarget ==
    /\ config \in TargetConfigs
    /\ stats = InitStats
    /\ logs = <<>>
    /\ isTrading = FALSE
    /\ cookie = TRUE
    /\ loops = EmptyBag
    /\ storage = JSONStringify(config)
    /\ loadError = ""
    /\ view = NoView

Succeeding(outcomes) == {r \in outcomes : r.kind \in {"ok", "success"}}

BalanceSuccesses == Succeeding(BalanceOutcomes)
BuyQuoteSuccesses == Succeeding(BuyQuoteOutcomes)
BuySuccesses == Succeeding(BuyResults)
SellQuoteSuccesses == Succeeding(SellQuoteOutcomes)
SellSuccesses == Succeeding(OrderOutcomes)

LoopStepTarget ==
    \/ BalanceResponseWith(BalanceSuccesses)
    \/ QuoteResponseWith("buyQuote", BuyQuoteSuccesses)
    \/ BuyResponseWith(BuySuccesses)
    \/ QuoteResponseWith("sellQuote", SellQuoteSuccesses)
    \/ SellResponseWith(SellSuccesses)
    \/ DelayExpires

NextTarget == Start \/ LoopStepTarget

\* Requests are answered and timers fire.
SpecTarget ==
    InitTarget /\ [][NextTarget]_vars /\ WF_vars(LoopStepTarget)

\* ----------------------------------------------- the run with failures
\* A run to the target in which requests may fail: minAmount > 0 and
\* minAmount <= maxAmount, the cookie present, no stop(), no config edit.
FairConfigs == { MkConfig(1, 2, 3, 1), MkConfig(2, 2, 3, 1) }

InitFair ==
    /\ config \in FairConfigs
    /\ stats = InitStats
    /\ logs = <<>>
    /\ isTrading = FALSE
    /\ cookie = TRUE
    /\ loops = EmptyBag
    /\ storage = JSONStringify(config)
    /\ loadError = ""
    /\ view = NoView

\* The responses with which a cycle goes on.
BalanceSucceeds ==
    BalanceResponseWith({r \in BalanceOutcomes : ~BalanceTooLow(BalanceOf(r))})
BuyQuoteSucceeds ==
    QuoteResponseWith("buyQuote", BuyQuoteSuccesses)
BuySucceeds == BuyResponseWith(BuySuccesses)
SellQuoteSucceeds ==
    QuoteResponseWith("sellQuote", SellQuoteSuccesses)
SellSucceeds == SellResponseWith(SellSuccesses)

NextFair == Start \/ LoopStep

\* Requests are answered and timers fire; a request made again and again
\* is not answered with a failure for ever.
SpecFair ==
    /\ InitFair /\ [][NextFair]_vars
    /\ WF_vars(LoopStep)
    /\ SF_vars(BalanceSucceeds) /\ SF_vars(BuyQuoteSucceeds)
    /\ SF_vars(BuySucceeds) /\ SF_vars(SellQuoteSucceeds)
    /\ SF_vars(SellSucceeds)

\* ------------------------------------------------- fills off the quote
\* A run in which the buy fills the quoted amount or, within the slippage
\* the quote was asked with (line 194), less: the cookie present, no
\* stop(), no config edit.
FilledValues == {2, 3}
FilledResults == BuyOutcomes(FilledValues)

InitFill ==
    /\ config = MkConfig(1, 2, 3, 1)
    /\ stats = InitStats
    /\ logs = <<>>
    /\ isTrading = FALSE
    /\ cookie = TRUE
    /\ loops = EmptyBag
    /\ storage = JSONStringify(config)
    /\ loadError = ""
    /\ view = NoView

NextFill ==
    \/ Start
    \/ BalanceResponse
    \/ BuyQuoteResponse
    \/ BuyResponseWith(FilledResults)
    \/ SellQuoteResponse
    \/ SellResponse
    \/ BackoffExpires
    \/ DelayExpires

SpecFill == InitFill /\ [][NextFill]_vars

\* ------------------------------------------------ reads of runningTime
\* Runs without the cookie (every cycle fails at once), with stop() and
\* with reads of runningTime up to an hour and more after the start.
ReadTimes == {1, 2, 2001, 62001, 3662001}

InitClock ==
    /\ config = MkConfig(1, 2, 2, 1)
    /\ stats = InitStats
    /\ logs = <<>>
    /\ isTrading = FALSE
    /\ cookie = FALSE
    /\ loops = EmptyBag
    /\ storage = JSONStringify(config)
    /\ loadError = ""
    /\ view = NoView

ReadRunningTime == ReadRunningTimeAt(ReadTimes)

NextClock ==
    \/ Start
    \/ Stop
    \/ BackoffExpires
    \/ DelayExpires
    \/ ReadRunningTime

SpecClock == InitClock /\ [][NextClock]_vars

\* ------------------------------------------------- one run at a time
\* Runs with a valid config that is not edited, each started when no
\* earlier invocation is alive; stop(), failures and the cookie as in Spec.
RunConfigs == { MkConfig(1, 2, 3, 1), MkConfig(2, 2, 3, 0) }

InitRun ==
    /\ config \in RunConfigs
    /\ stats = InitStats
    /\ logs = <<>>
    /\ isTrading = FALSE
    /\ cookie \in BOOLEAN
    /\ loops = EmptyBag
    /\ storage = JSONStringify(config)
    /\ loadError = ""
    /\ view = NoView

StartAlone == loops = EmptyBag /\ Start

NextRun ==
    \/ StartAlone
    \/ Stop
    \/ LoopStep
    \/ CookieChanges

SpecRun == InitRun /\ [][NextRun]_vars

\* ------------------------------------------- edits to the token contract
\* A single run in which the panel's contract address input is edited:
\* the cookie present, no stop().
ContractChoices ==
    { MkConfig(1, 1, 2, 0),
      [MkConfig(1, 1, 2, 0) EXCEPT !.contractAddress = "0x55d3"] }

InitContract ==
    /\ config \in ContractChoices
    /\ stats = InitStats
    /\ logs = <<>>
    /\ isTrading = FALSE
    /\ cookie = TRUE
    /\ loops = EmptyBag
    /\ storage = JSONStringify(config)
    /\ loadError = ""
    /\ view = NoView

NextContract == Start \/ LoopStep \/ EditConfigWith(ContractChoices)

SpecContract == InitContract /\ [][NextContract]_vars

\* ------------------------------------------------- the persisted config
\* The store right after construction, before the panel's loadConfig(),
\* over what the item can hold; then saves, loads and edits.
SavedConfigs ==
    { [MkConfig(lo, hi, target, 50) EXCEPT !.toToken = tok] :
        lo \in {-1, 0, 10, 99}, hi \in {0, 20, 205}, target \in {8192, 100000},
        tok \in {"B2", ""} }

StoredTexts ==
    {NoItem, EmptyText, NullText, GarbageText}
        \cup {JSONStringify(c) : c \in SavedConfigs}

InitConfig ==
    /\ config = DefaultConfig
    /\ stats = InitStats
    /\ logs = <<>>
    /\ isTrading = FALSE
    /\ cookie = TRUE
    /\ loops = EmptyBag
    /\ storage \in StoredTexts
    /\ loadError = ""
    /\ view = NoView

NextConfig == SaveConfig \/ LoadConfig \/ EditConfigWith(SavedConfigs)

SpecConfig == InitConfig /\ [][NextConfig]_vars

\* ----------------------------------------------------------------- claims
Range(seq) == {seq[k] : k \in 1..Len(seq)}

\* The TradeConfig a claim calls valid.
ValidConfig(c) == 0 <= c.minAmount /\ c.minAmount <= c.maxAmount

\* Number of live invocations suspended at one of pcs.
N(pcs) == BagCardinality([l \in {x \in Live : x.pc \in pcs} |-> loops[l]])

\* Number of cycles in flight: runCycle invoked and not yet resolved.
CyclesInFlight == N(NetPcs)

RECURSIVE SumBuy(_)
SumBuy(h) == IF h = <<>> THEN 0 ELSE h[1].buyAmount + SumBuy(Tail(h))

\* Steps, told by what they do to the invocations.
\* A balance response was consumed.
BalanceArrived == N({"balance"})' < N({"balance"})
\* A cycle began and its balance fetch failed before any request went out.
BalanceFailedAtOnce ==
    N({"balance"})' = N({"balance"}) /\ "balanceErr" \in Range(logs')
\* runCycle was entered.
CycleBegun == N({"balance"})' > N({"balance"}) \/ BalanceFailedAtOnce
\* runCycle resolved true / false.
CycleSucceeded == stats'.cyclesCompleted > stats.cyclesCompleted
CycleEndedFalse ==
    /\ stats'.cyclesCompleted = stats.cyclesCompleted
    /\ CyclesInFlight' < CyclesInFlight \/ BalanceFailedAtOnce

\* C1: at most one cycle is in flight at any time.
C1_OneCycleInFlight == CyclesInFlight <= 1

\* C2: start() while Running is a no-op.  From a Running state no step
\* launches an invocation, changes startTime or pushes the start line
\* (only startTrading does any of these).
C2_StartWhileRunningIsNoop ==
    [][isTrading =>
        /\ BagCardinality(loops') <= BagCardinality(loops)
        /\ stats'.startTime = stats.startTime
        /\ "start" \notin Range(logs')]_vars

\* Running, the clock past startTime, and the latest step changed nothing
\* of the log: where a start() that did anything would show.
C2_Witness ==
    /\ isTrading
    /\ loops # EmptyBag
    /\ stats.lastUpdated > stats.startTime
    /\ logs = <<>>

\* C3: stop() while Idle or Stopped leaves run state, stats and the log
\* unchanged.
C3_StopWhileStoppedIsNoop ==
    [][(~isTrading /\ Stop) =>
        (logs' = <<>> /\ UNCHANGED <<isTrading, stats>>)]_vars

\* C4: totalVolume is the sum of buyAmount over tradeHistory and
\* cyclesCompleted is the length of tradeHistory.
C4_TotalsMatchHistory ==
    /\ stats.totalVolume = SumBuy(stats.tradeHistory)
    /\ stats.cyclesCompleted = Len(stats.tradeHistory)

C4_Witness ==
    /\ Len(stats.tradeHistory) >= 2
    /\ stats.tradeHistory[1].buyAmount # stats.tradeHistory[2].buyAmount
    /\ stats.tradeHistory[2].buyAmount # stats.tradeHistory[2].sellAmount

\* C5: a balance below minUSDTRequired makes runCycle return false without
\* any quote, buy or sell request, leaving tradeHistory, cyclesCompleted,
\* totalVolume and totalProfit unchanged; a failed fetch counts as 0.
C5_LowBalanceAborts ==
    [][/\ (BalanceArrived \/ BalanceFailedAtOnce)
           /\ stats'.currentBalance < config.minUSDTRequired
         => /\ N({"backoff"})' = N({"backoff"}) + 1
            /\ N(NetPcs \ {"balance"})' = N(NetPcs \ {"balance"})
            /\ stats'.tradeHistory = stats.tradeHistory
            /\ stats'.cyclesCompleted = stats.cyclesCompleted
            /\ stats'.totalVolume = stats.totalVolume
            /\ stats'.totalProfit = stats.totalProfit
       /\ "balanceErr" \in Range(logs') => stats'.currentBalance = 0]_vars

C5_Witness ==
    /\ stats.currentBalance < config.minUSDTRequired
    /\ logs = <<"balanceErr", "lowBalance", "warnRetry">>
    /\ N({"backoff"}) = 1

\* C6: with 0 <= minAmount <= maxAmount the amount a cycle draws lies in
\* [minAmount, maxAmount], and the buyAmount a cycle records is the amount
\* it drew.
C6_AmountWithinBounds ==
    [][/\ ValidConfig(config) =>
            \A l \in BagToSet(loops') :
                l.pc = "buyQuote" /\ CopiesIn(l, loops') > CopiesIn(l, loops)
                    => /\ config.minAmount <= l.fromAmount
                       /\ l.fromAmount <= config.maxAmount
       /\ CycleSucceeded =>
            \E l \in At("sell") :
                stats'.tradeHistory[Len(stats'.tradeHistory)].buyAmount
                    = l.fromAmount]_vars

C6_Witness ==
    /\ config.minAmount < config.maxAmount
    /\ \E l \in At("buyQuote") : l.fromAmount = config.maxAmount
    /\ \E k \in 1..Len(stats.tradeHistory) :
         stats.tradeHistory[k].buyAmount = config.minAmount

\* C7: with a fixed amount a, target T and every cycle succeeding, the run
\* stops exactly after cycle ceil(T/a) and starts no further cycle
\* (a = 15, T = 100: cyclesCompleted = 7).
TargetCycles ==
    (config.targetVolume + config.minAmount - 1) \div config.minAmount

C7_StopsAtTarget ==
    /\ [](stats.cyclesCompleted <= TargetCycles)
    /\ [](CyclesInFlight > 0 => stats.cyclesCompleted < TargetCycles)
    /\ [](~isTrading /\ stats.startTime > 0
            => stats.cyclesCompleted = TargetCycles /\ loops = EmptyBag)
    /\ (isTrading ~> ~isTrading)

C7_Witness ==
    /\ config.minAmount = 15 /\ config.targetVolume = 100
    /\ ~isTrading /\ loops = EmptyBag
    /\ stats.cyclesCompleted = 7 /\ stats.totalVolume = 105

\* C8: once stop() has cleared the flag while a loop is suspended in a
\* delay, and as long as no start() follows, the loop begins no cycle: woken
\* from the backoff it goes on to the inter-cycle delay, woken from the
\* inter-cycle delay it stops.
C8_StopDuringDelay ==
    [][~isTrading /\ "start" \notin Range(logs') =>
        /\ ~CycleBegun
        /\ N({"backoff"})' < N({"backoff"})
             => /\ N({"delay"})' = N({"delay"}) + 1
                /\ BagCardinality(loops') = BagCardinality(loops)
        /\ N({"delay"})' < N({"delay"})
             => /\ BagCardinality(loops') = BagCardinality(loops) - 1
                /\ ~isTrading'
                /\ logs' = <<"stop">>]_vars

C8_Witness ==
    /\ ~isTrading
    /\ logs = <<"stop">>
    /\ N({"backoff"}) = 1 /\ N({"delay"}) = 1

\* C9: a loop woken from the failure backoff with the stop flag set exits
\* then, without waiting the inter-cycle delay.
C9_StopObservedAfterBackoff ==
    [][~isTrading /\ N({"backoff"})' < N({"backoff"})
         => BagCardinality(loops') < BagCardinality(loops)]_vars

\* C10: after a failed cycle the loop is suspended for 30 s, with exactly
\* one warning pushed just before, and for 60 s after that; after a
\* successful cycle it is suspended for 60 s with no backoff and no warning.
C10_BackoffThenDelay ==
    [][/\ CycleEndedFalse
            => /\ N({"backoff"})' = N({"backoff"}) + 1
               /\ logs' # <<>> /\ logs'[Len(logs')] = "warnRetry"
               /\ Cardinality({k \in 1..Len(logs') : logs'[k] = "warnRetry"}) = 1
       /\ CycleSucceeded
            => /\ N({"delay"})' = N({"delay"}) + 1
               /\ N({"backoff"})' = N({"backoff"})
               /\ "warnRetry" \notin Range(logs')
       /\ N({"backoff"})' < N({"backoff"})
            => /\ N({"delay"})' = N({"delay"}) + 1
               /\ ~CycleBegun
               /\ logs' = <<>>
       /\ \A l \in BagToSet(loops') :
            /\ l.pc = "backoff" => l.wait = 30000
            /\ l.pc = "delay" => l.wait = 60000]_vars

C10_Witness ==
    /\ logs = <<"sellFail", "warnRetry">>
    /\ \E l \in At("backoff") : l.wait = 30000

\* How many lines of kind tag a sequence of log lines holds.
Count(tag, seq) == Cardinality({k \in 1..Len(seq) : seq[k] = tag})

\* C11: runCycle always resolves to true or false and never raises, whatever
\* the remote operations come back with.  A step in which a cycle ends
\* leaves its loop suspended in the 60 s timer with a new TradeRecord (true)
\* or in the 30 s timer without one (false); an invocation ends only at the
\* top of the loop, never inside a cycle.
C11_RunCycleNeverRaises ==
    [][/\ BagCardinality(loops') < BagCardinality(loops)
            => N({"delay"})' < N({"delay"})
       /\ (CyclesInFlight' < CyclesInFlight \/ BalanceFailedAtOnce)
            => \/ /\ CycleSucceeded
                  /\ N({"delay"})' = N({"delay"}) + 1
                  /\ BagCardinality(loops') = BagCardinality(loops)
               \/ /\ ~CycleSucceeded
                  /\ N({"backoff"})' = N({"backoff"}) + 1
                  /\ BagCardinality(loops') >= BagCardinality(loops)]_vars

\* A sell came back with a null body: the TypeError was caught by runCycle.
C11_Witness ==
    /\ logs = <<"cycleErr", "warnRetry">>
    /\ N({"backoff"}) = 1
    /\ isTrading

\* C12: each remote operation, on any failure, returns its sentinel and
\* appends exactly one error line of its own kind.  With the cookie present
\* (so that the call that fails is the one whose response arrives), a cycle
\* that ends at a quote or at an order has exactly one line of that
\* operation in the step's log, and a balance response that is an error
\* gives balance 0 with exactly one line of the balance fetch.
QuotePcs == {"buyQuote", "sellQuote"}
OrderPcs == {"buy", "sell"}
C12_OneErrorLinePerFailedCall ==
    [][cookie /\ N({"backoff"})' = N({"backoff"}) + 1 =>
        /\ N(QuotePcs)' < N(QuotePcs) => Count("quoteErr", logs') = 1
        /\ N(OrderPcs)' < N(OrderPcs)
             => Count("buyErr", logs') + Count("sellErr", logs') = 1
        /\ \A l \in At("balance") :
             LET m == OnBalance(Machine(l), Outcome("error", 0), 0)
             IN  m.st.currentBalance = 0 /\ Count("balanceErr", m.lg) = 1]_vars

\* C13: a config edit made while a cycle is in flight is not observed by
\* that cycle.  Of the parameters the cycle uses, the contract address goes
\* out in the buy quote, the buy, the sell quote and the sell: each request
\* after the first carries the address the request before it carried.
C13_EditNotObservedInFlight ==
    [][\A l \in Live, n \in BagToSet(loops') :
          /\ BagCardinality(loops) = 1 /\ BagCardinality(loops') = 1
          /\ l.contract # "" /\ n.contract # ""
          => n.contract = l.contract]_vars

\* C14: a start() issued from Idle or Stopped makes the state Running and
\* resets startTime to the clock, and leaves totalVolume, cyclesCompleted,
\* totalProfit and tradeHistory as they were.  The start line is logged and
\* the state is Running when start() suspends, unless the target was
\* reached before: then the loop runs no cycle and the state is Stopped
\* again at once, with the stop line logged after the start line.
C14_StartKeepsCounters ==
    [][~isTrading /\ Start =>
        /\ stats'.startTime \in DateNow
        /\ logs' # <<>> /\ logs'[1] = "start"
        /\ isTrading' = (stats.totalVolume < config.targetVolume)
        /\ ~isTrading' => logs' = <<"start", "stop">>
        /\ stats'.totalVolume = stats.totalVolume
        /\ stats'.cyclesCompleted = stats.cyclesCompleted
        /\ stats'.totalProfit = stats.totalProfit
        /\ stats'.tradeHistory = stats.tradeHistory]_vars

\* Running again after an earlier run that completed a cycle: startTime is
\* later than that cycle's record, which is still there.
C14_Witness ==
    /\ isTrading
    /\ logs = <<"start">>
    /\ stats.cyclesCompleted = 1 /\ stats.totalVolume = 1
    /\ stats.startTime > stats.tradeHistory[1].time

\* C15: save(cfg) followed by load() yields a TradeConfig equal to cfg field
\* for field, and a second save/load leaves it unchanged.  Whenever the item
\* holds what saveConfig() wrote for a TradeConfig c, loadConfig() makes
\* config equal to c without raising, and saving that again writes the
\* same item.
C15_SaveLoadRoundTrip ==
    [][LoadConfig =>
        \A c \in SavedConfigs \cup {DefaultConfig} :
            storage = JSONStringify(c)
                => /\ config' = c
                   /\ loadError' = ""
                   /\ JSONStringify(config') = storage]_vars

\* A config with a negative bound, an empty token and a three-digit bound
\* has been saved and loaded.
C15_Witness ==
    /\ config # NullConfig
    /\ config.minAmount = -1 /\ config.maxAmount = 205 /\ config.toToken = ""
    /\ storage = JSONStringify(config)
    /\ storage.members.maxAmount.digits = <<2, 0, 5>>
    /\ loadError = ""

\* C16: load() on a missing or corrupt record yields the built-in default
\* TradeConfig and surfaces no error to the caller.
C16_LoadFallsBackToDefault ==
    [][LoadConfig /\ storage.kind # "object"
         => config' = DefaultConfig /\ loadError' = ""]_vars

\* C17: within one cycle the remote operations occur in the order balance,
\* buy quote, buy, sell quote, sell, each at most once: every step moves
\* one invocation one place forward in that order or out of the cycle (to
\* the 30 s timer, or from the sell to the 60 s timer); the buy goes out
\* only with a buy quote in hand, the sell quote only with a successful
\* buy, the sell only with a sell quote; a cycle is entered only from a
\* start or from the 60 s timer.
Moved(l, n) == loops' = (loops (-) SetToBag({l})) (+) SetToBag({n})
CycleOrder ==
    {<<"balance", "buyQuote">>, <<"buyQuote", "buy">>,
     <<"buy", "sellQuote">>, <<"sellQuote", "sell">>}
CycleEnds == {<<p, "backoff">> : p \in NetPcs} \cup {<<"sell", "delay">>}
LoopMoves ==
    {<<"backoff", "delay">>, <<"delay", "balance">>, <<"delay", "backoff">>}
InHand(n) ==
    /\ n.pc \in {"buy", "sellQuote", "sell"} => n.buyQuote \in BuyQuoteValues
    /\ n.pc \in {"sellQuote", "sell"} => n.buySuccess
    /\ n.pc = "sell" => n.sellQuote \in SellQuoteValues
C17_OperationsInOrder ==
    [][loops' # loops =>
        \/ \E n \in BagToSet(loops') :
              /\ loops' = loops (+) SetToBag({n})
              /\ n.pc \in {"balance", "backoff"}
        \/ \E l \in Live : loops' = loops (-) SetToBag({l}) /\ l.pc = "delay"
        \/ \E l \in Live, n \in BagToSet(loops') :
              /\ Moved(l, n)
              /\ <<l.pc, n.pc>> \in CycleOrder \cup CycleEnds \cup LoopMoves
              /\ InHand(n)
              /\ <<l.pc, n.pc>> \in CycleOrder \ {<<"balance", "buyQuote">>}
                    => n.fromAmount = l.fromAmount]_vars

\* A cycle has come to its sell, past a failed cycle of another invocation.
C17_Witness ==
    /\ \E l \in At("sell") :
          l.buySuccess /\ l.buyQuote = 3 /\ l.sellQuote = 1
    /\ N({"backoff"}) = 1

\* C18: runCycle returns true if and only if it appended exactly one
\* TradeRecord; a cycle that fails at any step leaves tradeHistory,
\* totalVolume, totalProfit and cyclesCompleted unchanged; no operation
\* modifies or removes a TradeRecord.  Every step keeps the history as a
\* prefix and adds at most one record, and adds one exactly when an
\* invocation goes from its sell straight to the 60 s timer (runCycle
\* returned true); a step that sends an invocation to the 30 s timer
\* (runCycle returned false) leaves the four unchanged.
ReturnedTrue ==
    \E l \in At("sell"), n \in BagToSet(loops') : Moved(l, n) /\ n.pc = "delay"
C18_RecordIffSuccess ==
    [][/\ Len(stats'.tradeHistory) \in
            {Len(stats.tradeHistory), Len(stats.tradeHistory) + 1}
       /\ SubSeq(stats'.tradeHistory, 1, Len(stats.tradeHistory))
            = stats.tradeHistory
       /\ ReturnedTrue
            <=> Len(stats'.tradeHistory) = Len(stats.tradeHistory) + 1
       /\ N({"backoff"})' > N({"backoff"})
            => /\ stats'.tradeHistory = stats.tradeHistory
               /\ stats'.totalVolume = stats.totalVolume
               /\ stats'.totalProfit = stats.totalProfit
               /\ stats'.cyclesCompleted = stats.cyclesCompleted]_vars

\* After one recorded cycle, a cycle whose buy succeeded failed at its sell.
C18_Witness ==
    /\ Len(stats.tradeHistory) = 1 /\ stats.cyclesCompleted = 1
    /\ logs = <<"sellErr", "sellFail", "warnRetry">>

\* C19: the drive loop exits only because stop was requested or
\* totalVolume >= targetVolume; no cycle failure, of any kind and after any
\* number of them, moves the Controller to Stopped, and every failure is
\* followed by the backoff and another attempt.  An invocation leaves only
\* from its 60 s timer and only when the flag is down or the target is
\* reached; the flag goes down only by stopTrading() from the panel or by
\* a loop exit at the target; an invocation whose cycle ends without a
\* record goes to the 30 s timer with the flag as it was, from there to
\* the 60 s timer, and from there, if it stays, into another cycle.
LoopExits == \E l \in Live : loops' = loops (-) SetToBag({l})
StopRequested == loops' = loops /\ logs' = <<"stop">>
C19_FailuresNeverStop ==
    [][/\ LoopExits =>
            ~isTrading \/ stats.totalVolume >= config.targetVolume
       /\ isTrading /\ ~isTrading' =>
            \/ StopRequested
            \/ LoopExits /\ stats.totalVolume >= config.targetVolume
       /\ loops' # loops =>
            \A l \in Live, n \in BagToSet(loops') :
                Moved(l, n) =>
                    /\ l.pc \in NetPcs /\ <<l.pc, n.pc>> \notin CycleOrder
                            /\ stats'.tradeHistory = stats.tradeHistory
                          => /\ n.pc = "backoff" /\ n.wait = BackoffMs
                             /\ isTrading' = isTrading
                    /\ l.pc = "backoff" => n.pc = "delay" /\ n.wait = CycleMs
                    /\ l.pc = "delay" => n.pc \in {"balance", "backoff"}]_vars

\* The run goes on after a failed cycle: one
\* invocation is in its 30 s timer after a failed buy, nothing is recorded,
\* the flag is up and the target is not reached.
C19_Witness ==
    /\ isTrading /\ stats.totalVolume < config.targetVolume
    /\ logs = <<"buyFail", "warnRetry">>
    /\ \E l \in At("backoff") : l.wait = BackoffMs
    /\ stats.tradeHistory = <<>>

\* C20: after start() with minAmount > 0, if remote calls always return
\* and cycles succeed infinitely often, the Controller eventually reaches
\* Stopped with totalVolume >= targetVolume, and on that loop exit it logs
\* a stop event.  A run that is on leads to the state the loop exit
\* leaves: the flag down, the target reached, no invocation left and the
\* stop line the one just pushed.
C20_EventuallyStopsAtTarget ==
    isTrading ~>
        /\ ~isTrading
        /\ stats.totalVolume >= config.targetVolume
        /\ loops = EmptyBag
        /\ logs = <<"stop">>

\* A run with draws between 1 and 2 has stopped at its target of 3 after
\* two recorded cycles.
C20_Witness ==
    /\ config.minAmount = 1 /\ config.maxAmount = 2
    /\ ~isTrading /\ loops = EmptyBag /\ logs = <<"stop">>
    /\ stats.cyclesCompleted = 2 /\ stats.totalVolume = 3

\* C21 (as stated): while the session cookie is absent no request goes
\* out, every cycle returns false, and tradeHistory, totalVolume and
\* cyclesCompleted stay unchanged.
RequestGoesOut ==
    \E n \in BagToSet(loops') :
        n.pc \in NetPcs /\ CopiesIn(n, loops') > CopiesIn(n, loops)
C21_NoCookieNoProgress ==
    [][~cookie =>
        /\ ~RequestGoesOut
        /\ ~ReturnedTrue
        /\ stats'.tradeHistory = stats.tradeHistory
        /\ stats'.totalVolume = stats.totalVolume
        /\ stats'.cyclesCompleted = stats.cyclesCompleted]_vars

\* C21 (amended): an operation invoked while the cookie is absent fails
\* before any request goes out, so a cycle begun then returns false at
\* once and a cycle resumed then makes no further request; a response to a
\* request sent earlier is still processed.  A cycle begun while the cookie
\* is present sends its balance request, whatever the cookie was before.
CycleBegins(n) ==
    \/ loops' = loops (+) SetToBag({n})
    \/ \E l \in At("delay") : loops' # loops /\ Moved(l, n)
C21_NoCookieNoRequest ==
    [][/\ ~cookie =>
            /\ ~RequestGoesOut
            /\ \A n \in BagToSet(loops') :
                  CycleBegins(n) =>
                      /\ n.pc = "backoff"
                      /\ stats'.tradeHistory = stats.tradeHistory
                      /\ stats'.totalVolume = stats.totalVolume
                      /\ stats'.cyclesCompleted = stats.cyclesCompleted
       /\ cookie =>
            \A n \in BagToSet(loops') : CycleBegins(n) => n.pc = "balance"]_vars

\* After one recorded cycle the cookie is gone: the next cycle's balance
\* fetch and buy quote both failed without a request.
C21_Witness ==
    /\ ~cookie /\ stats.cyclesCompleted = 1
    /\ logs = <<"balanceErr", "cycleStart", "quoteErr", "warnRetry">>
    /\ N(NetPcs) = 0 /\ N({"backoff"}) = 1

\* C22: the sell quote and the sell order of a cycle are requested for the
\* entire amount of toToken actually acquired by that cycle's buy.
C22_SellsWhatWasAcquired ==
    \A l \in Live :
        l.pc \in {"sellQuote", "sell"} => SellAmount(l) = l.acquired

\* C23: every TradeRecord was appended with cycleNumber = cyclesCompleted
\* + 1, so the cycleNumbers in tradeHistory are 1, 2, ..., n in insertion
\* order, also across failed cycles and stop()/start() runs, and its
\* profitLoss is its sell proceeds minus its buy amount.
C23_CycleNumbersInOrder ==
    /\ [](\A i \in 1..Len(stats.tradeHistory) :
            /\ stats.tradeHistory[i].cycleNumber = i
            /\ stats.tradeHistory[i].profitLoss =
                  stats.tradeHistory[i].sellAmount
                      - stats.tradeHistory[i].buyAmount)
    /\ [][Len(stats'.tradeHistory) > Len(stats.tradeHistory) =>
            stats'.tradeHistory[Len(stats'.tradeHistory)].cycleNumber
                = stats.cyclesCompleted + 1]_vars

\* Two records, the second at a loss, with two invocations alive (a
\* stop() and a start() lie behind) and one of them in its failure timer.
C23_Witness ==
    /\ Len(stats.tradeHistory) = 2
    /\ stats.tradeHistory[2].cycleNumber = 2
    /\ stats.tradeHistory[2].profitLoss < 0
    /\ BagCardinality(loops) = 2 /\ N({"backoff"}) = 1

\* C24: the reported running time equals now - startTime while the state
\* is Running, and once the state is Stopped it stays frozen at the last
\* recorded elapsed value: a read while Running gives the span from
\* startTime to the time of the read, and a read while Stopped that follows
\* a read while Stopped of the same run gives what that one gave.
C24_RunningTimeTracksRun ==
    [][view' # view =>
        /\ isTrading =>
              view'.shown = RunningTimeText(view'.at - stats.startTime)
        /\ ~isTrading /\ ~view.running /\ view.seen = stats.startTime =>
              view'.shown = view.shown]_vars

\* C25: stop() never interrupts a cycle in flight.  With the run flag
\* down (and the cookie there for the next request) a successful buy
\* response still sends the cycle on to its sell quote, a sell quote on to
\* its sell, and a successful sell still appends the TradeRecord and adds
\* to the totals; the flag stays down.
C25_StopLeavesCycleInFlight ==
    [][~isTrading =>
        /\ cookie /\ BuySucceeds =>
              \E l \in At("buy"), n \in BagToSet(loops') :
                  loops' # loops /\ Moved(l, n) /\ n.pc = "sellQuote"
        /\ cookie /\ SellQuoteSucceeds =>
              \E l \in At("sellQuote"), n \in BagToSet(loops') :
                  loops' # loops /\ Moved(l, n) /\ n.pc = "sell"
        /\ SellSucceeds =>
              /\ \E l \in At("sell") :
                    /\ Len(stats'.tradeHistory) = Len(stats.tradeHistory) + 1
                    /\ stats'.tradeHistory[Len(stats'.tradeHistory)].buyAmount
                          = l.fromAmount
                    /\ stats'.totalVolume = stats.totalVolume + l.fromAmount
                    /\ stats'.totalProfit
                          = stats.totalProfit + l.sellQuote - l.fromAmount
              /\ stats'.cyclesCompleted = stats.cyclesCompleted + 1
              /\ ~isTrading']_vars

\* A cycle has just been recorded with the run flag down.
C25_Witness ==
    /\ ~isTrading
    /\ logs = <<"tradeOk">>
    /\ stats.cyclesCompleted = 1 /\ N({"delay"}) = 1

\* C26: every cycle is started with the run flag up and totalVolume <
\* targetVolume; hence, run by run with an unchanged valid config,
\* totalVolume never exceeds targetVolume + maxAmount; and a start() issued
\* when totalVolume >= targetVolume runs no cycle and leaves the state
\* Stopped.
C26_CyclesStartBelowTarget ==
    /\ [][\A n \in BagToSet(loops') :
            CycleBegins(n) =>
                isTrading' /\ stats.totalVolume < config.targetVolume]_vars
    /\ [](stats.totalVolume <= config.targetVolume + config.maxAmount)
    /\ [][~isTrading /\ Start /\ stats.totalVolume >= config.targetVolume =>
            /\ loops' = loops
            /\ ~isTrading'
            /\ logs' = <<"start", "stop">>
            /\ stats'.currentBalance = stats.currentBalance]_vars

\* The volume overshot the target by the most a last cycle can add, and a
\* start() issued after that stopped at once.
C26_Witness ==
    /\ stats.totalVolume = config.targetVolume + config.maxAmount - 1
    /\ config.minAmount < config.maxAmount
    /\ ~isTrading /\ loops = EmptyBag
    /\ logs = <<"start", "stop">>

RECURSIVE SumProfit(_)
SumProfit(h) == IF h = <<>> THEN 0 ELSE h[1].profitLoss + SumProfit(Tail(h))
C28_ProfitMatchesHistory ==
    /\ [](stats.totalProfit = SumProfit(stats.tradeHistory))
    /\ [][stats'.lastUpdated # stats.lastUpdated =>
            /\ ReturnedTrue
            /\ Len(stats'.tradeHistory) = Len(stats.tradeHistory) + 1
            /\ logs' = <<"tradeOk">>]_vars

\* Two records, one at a loss, the later written at clock 2.
C28_Witness ==
    /\ Len(stats.tradeHistory) = 2
    /\ stats.totalProfit = -1
    /\ stats.lastUpdated = 2 /\ stats.tradeHistory[1].time = 1

====
